---- MODULE Spec2Model ----
(***************************************************************************)
(* The tiered, strategy-driven cache of cursor-pulse (CacheService in      *)
(* src/src/services/database.ts) over its two backends: the globalState    *)
(* slot (CompactStore) and the per-key files (BlobStore).  Each public     *)
(* operation is an asynchronous function; a process of the model runs one  *)
(* operation, and one action is the code between two of its await points. *)
(***************************************************************************)
EXTENDS Integers, Sequences, FiniteSets, TLC

\* ------------------------------------------------------------------ bounds
MaxTime == 1
MaxVersion == 1
MaxTTL == 1
MaxOps == 3
MaxFaults == 1
MaxKeyLen == 5
MaxCalls == 3

\* ------------------------------------------------------- program constants
CACHE_VERSION == 1
MAX_GLOBAL_STATE_SIZE == 100 * 1024 * 1024
\* the version number the version-mismatch test injects
STALE_VERSION == 999
\* bytes JSON.stringify adds around the payload for {data, metadata}
EnvelopeBytes == 100

Procs == {1, 2}
ObjIds == 1 .. 4

\* cache keys are strings, modelled as sequences of characters
KeyAB == <<"a", ":", "b">>
KeyA_B == <<"a", "_", "b">>
Keys == {KeyAB, KeyA_B}

Strategies == {"TIME_BASED", "STATE_BASED", "PERMANENT", "PARAM_BASED"}

\* payloads: a 150 KB filler, one exactly at the per-entry threshold, one a
\* byte over it, and one JSON.stringify rejects (a circular structure)
Payload(n) == [kind |-> "plain", bytes |-> n]
P150K == Payload(150 * 1024)
PAtMax == Payload(MAX_GLOBAL_STATE_SIZE - EnvelopeBytes)
POverMax == Payload(MAX_GLOBAL_STATE_SIZE - EnvelopeBytes + 1)
PCircular == [kind |-> "circular", bytes |-> 0]
Payloads == {P150K, PAtMax, POverMax, PCircular}

\* an optional value is a set with at most one element ({} is undefined/null)
None == {}
Some(x) == {x}
The(s) == CHOOSE x \in s : TRUE

ParamChoices == {None, Some(<<"b">>)}

\* ------------------------------------------------------------- KeyCodec
RECURSIVE SplitAcc(_, _, _)
SplitAcc(s, parts, cur) ==
  IF s = <<>> THEN Append(parts, cur)
  ELSE IF Head(s) = ":" THEN SplitAcc(Tail(s), Append(parts, cur), <<>>)
  ELSE SplitAcc(Tail(s), parts, Append(cur, Head(s)))

\* key.split(":")
Split(key) == SplitAcc(key, <<>>, <<>>)

RECURSIVE Join(_)
\* parts.join(":")
Join(parts) ==
  IF parts = <<>> THEN <<>>
  ELSE IF Len(parts) = 1 THEN parts[1]
  ELSE parts[1] \o <<":">> \o Join(Tail(parts))

extractParamsFromKey(key) ==
  LET parts == Split(key) IN
  IF Len(parts) > 2 THEN Some(Join(SubSeq(parts, 3, Len(parts))))
  ELSE IF Len(parts) = 2 THEN Some(parts[2])
  ELSE None

isValidCacheKey(key) ==
  LET parts == Split(key) IN
  Len(parts) >= 2 /\ \A i \in 1 .. Len(parts) : Len(parts[i]) > 0

\* the strings of at most n characters over the characters of the two keys
KeyChars == {"a", "b", ":"}
KeyInputs == UNION {[1 .. n -> KeyChars] : n \in 0 .. MaxKeyLen}

\* --------------------------------------------------- file-name sanitizer
UnsafeChars == {"<", ">", ":", "\"", "/", "\\", "|", "?", "*"}
Whitespace == {" "}

\* key.replace(/[<>:"/\\|?*]/g, "_")
ReplaceUnsafe(key) ==
  [i \in 1 .. Len(key) |-> IF key[i] \in UnsafeChars THEN "_" ELSE key[i]]

RECURSIVE CollapseSpace(_)
\* s.replace(/\s+/g, "_")
CollapseSpace(s) ==
  IF s = <<>> THEN <<>>
  ELSE IF Head(s) \in Whitespace
       THEN IF Len(s) > 1 /\ s[2] \in Whitespace
            THEN CollapseSpace(Tail(s))
            ELSE <<"_">> \o CollapseSpace(Tail(s))
       ELSE <<Head(s)>> \o CollapseSpace(Tail(s))

sanitizeFileName(key) == CollapseSpace(ReplaceUnsafe(key))

FileNames == {sanitizeFileName(k) : k \in Keys}

\* variants of the strategy evaluator: an entry exactly ttl old still counts
\* as fresh; the recorded state version is not compared
isCacheValid_InclusiveTtl(metadata, key, t, currentStateVersion) ==
  CASE metadata.strategy = "PERMANENT" -> TRUE
    [] metadata.strategy = "TIME_BASED" -> t - metadata.timestamp <= metadata.ttl
    [] metadata.strategy = "STATE_BASED" ->
         (t - metadata.timestamp < metadata.ttl)
         /\ currentStateVersion = metadata.stateVersion
    [] metadata.strategy = "PARAM_BASED" ->
         IF ~(t - metadata.timestamp < metadata.ttl) THEN FALSE
         ELSE extractParamsFromKey(key) = metadata.params
    [] OTHER -> FALSE

isCacheValid_NoVersion(metadata, key, t, currentStateVersion) ==
  CASE metadata.strategy = "PERMANENT" -> TRUE
    [] metadata.strategy = "TIME_BASED" -> t - metadata.timestamp < metadata.ttl
    [] metadata.strategy = "STATE_BASED" -> t - metadata.timestamp < metadata.ttl
    [] metadata.strategy = "PARAM_BASED" ->
         IF ~(t - metadata.timestamp < metadata.ttl) THEN FALSE
         ELSE extractParamsFromKey(key) = metadata.params
    [] OTHER -> FALSE

\* variant: the params recorded in the entry are not compared with the key's
isCacheValid_NoParams(metadata, key, t, currentStateVersion) ==
  CASE metadata.strategy = "PERMANENT" -> TRUE
    [] metadata.strategy = "TIME_BASED" -> t - metadata.timestamp < metadata.ttl
    [] metadata.strategy = "STATE_BASED" ->
         (t - metadata.timestamp < metadata.ttl)
         /\ currentStateVersion = metadata.stateVersion
    [] metadata.strategy = "PARAM_BASED" -> t - metadata.timestamp < metadata.ttl
    [] OTHER -> FALSE

\* ----------------------------------------------------- strategy evaluator
isCacheValid(metadata, key, t, currentStateVersion) ==
  CASE metadata.strategy = "PERMANENT" -> TRUE
    [] metadata.strategy = "TIME_BASED" -> t - metadata.timestamp < metadata.ttl
    [] metadata.strategy = "STATE_BASED" ->
         (t - metadata.timestamp < metadata.ttl)
         /\ currentStateVersion = metadata.stateVersion
    [] metadata.strategy = "PARAM_BASED" ->
         IF ~(t - metadata.timestamp < metadata.ttl) THEN FALSE
         ELSE extractParamsFromKey(key) = metadata.params
    [] OTHER -> FALSE

\* ------------------------------------------------------------ serializing
\* Buffer.byteLength(JSON.stringify({data, metadata}))
DataSize(cachedData) == cachedData.data.bytes + EnvelopeBytes

\* JSON.stringify throws on a circular structure
StringifyThrows(cachedData) == cachedData.data.kind = "circular"

\* the text written to a file: JSON text of an entry, or bytes that are no JSON
JsonText(cachedData) == [json |-> TRUE, doc |-> Some(cachedData)]
MalformedText == [json |-> FALSE, doc |-> None]

\* variant of the parser: text that is no JSON yields an entry all the same
JsonParse_Lenient(text) ==
  IF text.json THEN text.doc
  ELSE Some([data |-> Payload(0),
             metadata |-> [timestamp |-> 0, ttl |-> 0, stateVersion |-> 0,
                           strategy |-> "PERMANENT", params |-> None]])

\* JSON.parse(content): the entry, or a throw (None) when the text is no JSON
JsonParse(text) == IF text.json THEN text.doc ELSE None

\* variant of the size rule: an entry of exactly the threshold goes to a file
FitsGlobalState_Strict(dataSize) == dataSize < MAX_GLOBAL_STATE_SIZE

\* the size rule of setCachedData and cleanupStorageLocation
FitsGlobalState(dataSize) == dataSize <= MAX_GLOBAL_STATE_SIZE

\* ------------------------------------------------------------------ state
VARIABLES
  slot,        \* globalState["cursor-pulse.cache"]: 0 (undefined) or an object
  heap,        \* the container objects: object id -> {version, data}
  files,       \* file storage: file name -> [text, wkey]
  now,         \* Date.now()
  oracle,      \* MAX(rowid) of the editor's database
  oracleDown,  \* whether reading that database fails at present
  proc,        \* the running operations, one per process
  started,     \* operations started so far
  faultsLeft,  \* backend failures and corruptions that may still occur
  mode,        \* how operations are run: "seq", "fault", "conc" or "life"
  instance,    \* CacheService.instance: [id, context], id 0 while undefined
  life,        \* each caller's last initialize or getInstance call
  ran,         \* whether initialize has been called
  handed       \* the instances getInstance has returned so far

lifeVars == <<instance, life, ran, handed>>

VARIABLES
  codec,       \* a key given to the functions of cacheUtils, and their results
  isUpdating,  \* extension.ts: let isUpdating
  refreshes    \* the calls of refresh (extension.ts), each at one of its awaits

sideVars == <<codec, isUpdating, refreshes>>

vars ==
  <<slot, heap, files, now, oracle, oracleDown, proc, started, faultsLeft, mode,
    lifeVars, sideVars>>

\* whether operations may run interleaved at their await points
Interleave == mode = "conc"

EmptyMap == [k \in {} |-> 0]
DefaultCache == [version |-> CACHE_VERSION, data |-> EmptyMap]
FreeObj == [version |-> 0, data |-> EmptyMap]

Put(m, k, v) == [x \in (DOMAIN m) \cup {k} |-> IF x = k THEN v ELSE m[x]]
Del(m, k) == [x \in (DOMAIN m) \ {k} |-> m[x]]
Lookup(m, k) == IF k \in DOMAIN m THEN Some(m[k]) ELSE None

NoPrev ==
  [kind |-> "none", key |-> <<>>, entry |-> None, failed |-> FALSE, ok |-> FALSE,
   snap |-> {}, over |-> None]

IdleProc ==
  [pc |-> "idle", kind |-> "none", key |-> <<>>, entry |-> None,
   cache |-> 0, globalEntry |-> None, fileData |-> None, listed |-> {},
   checked |-> {}, result |-> None, failed |-> FALSE, caught |-> FALSE,
   clean |-> TRUE, id |-> 0, alone |-> TRUE, stale |-> FALSE, preheld |-> FALSE,
   snap |-> {}, mismatch |-> FALSE, fileReads |-> 0, oracleCalls |-> 0,
   over |-> None, prev |-> NoPrev]

InitStores ==
  /\ slot = 0
  /\ heap = [o \in ObjIds |-> FreeObj]
  /\ files = EmptyMap
  /\ now = 0
  /\ oracle = 0
  /\ oracleDown = FALSE
  /\ proc = [p \in Procs |-> IdleProc]
  /\ started = 0

\* the extension's contexts a caller may pass to initialize
Contexts == {1, 2}

\* CacheService.instance while it is undefined
NoInstance == [id |-> 0, context |-> 0]

IdleCall ==
  [pc |-> "idle", call |-> "none", context |-> 0, got |-> 0, ran |-> FALSE,
   failed |-> FALSE]

\* CacheService.initialize(context 1) has completed
Initialized ==
  /\ instance = [id |-> 1, context |-> 1]
  /\ life = [c \in Procs |-> IdleCall]
  /\ ran = TRUE
  /\ handed = {}

\* the class has been loaded and initialize has not been called
NotInitialized ==
  /\ instance = NoInstance
  /\ life = [c \in Procs |-> IdleCall]
  /\ ran = FALSE
  /\ handed = {}

NoCodec == [pc |-> "idle", key |-> <<>>, params |-> None, valid |-> FALSE]

\* the calls of refresh that timer ticks and reload commands make
Calls == 1 .. MaxCalls

IdleRefresh ==
  [pc |-> "idle", origin |-> "none", forceRefresh |-> FALSE, busy |-> FALSE,
   end |-> "none"]

\* the extension after activate: no refresh is running
RefreshIdle == isUpdating = FALSE /\ refreshes = [r \in Calls |-> IdleRefresh]

\* nothing but the cache is in use
SideIdle == codec = NoCodec /\ RefreshIdle

Init == InitStores /\ Initialized /\ SideIdle /\ mode = "seq" /\ faultsLeft = 0

InitFault ==
  InitStores /\ Initialized /\ SideIdle /\ mode = "fault" /\ faultsLeft = MaxFaults

InitConc == InitStores /\ Initialized /\ SideIdle /\ mode = "conc" /\ faultsLeft = 0

InitLife == InitStores /\ NotInitialized /\ SideIdle /\ mode = "life" /\ faultsLeft = 0

\* a caller is about to hand a key to the functions of cacheUtils
InitKey ==
  /\ InitStores /\ Initialized /\ RefreshIdle /\ mode = "key" /\ faultsLeft = 0
  /\ codec \in {[NoCodec EXCEPT !.pc = "input", !.key = k] : k \in KeyInputs}

\* timer ticks and reload commands are about to call refresh
InitRefresh ==
  InitStores /\ Initialized /\ SideIdle /\ mode = "refresh" /\ faultsLeft = 0

\* --------------------------------------------------- state-version oracle
\* DatabaseService.getCurrentStateVersion as CacheService.getCurrentStateVersion
\* awaits it: MAX(rowid), and 0 from its catch block when the database cannot
\* be read (it never rejects, so the caller's own catch is not entered)
getCurrentStateVersion == IF oracleDown THEN 0 ELSE oracle

\* ------------------------------------------------- the host's two backends
Used(s, pr) == ({s} \cup {pr[q].cache : q \in Procs}) \ {0}

\* a new object literal (const defaultCache = {...})
Fresh(s, pr) ==
  CHOOSE o \in ObjIds \ Used(s, pr) : \A o2 \in ObjIds \ Used(s, pr) : o <= o2

\* objects nothing refers to any more are garbage
Collect(h, s, pr) ==
  [o \in ObjIds |-> IF o \in Used(s, pr) THEN h[o] ELSE FreeObj]

\* getGlobalStateCache up to its return: globalState.get with a new default
\* object, and on a version mismatch globalState.update(default).  `fail` is a
\* rejection of that update.  The result names the object the caller holds.
UpdateOnRead == slot # 0 /\ heap[slot].version # CACHE_VERSION

\* variant: the stored container is handed out whatever its version
getGlobalStateCache_AnyVersion(fail) ==
  LET o == Fresh(slot, proc) IN
  IF slot = 0
    THEN [threw |-> FALSE, cache |-> o, slot |-> slot,
          heap |-> [heap EXCEPT ![o] = DefaultCache]]
  ELSE [threw |-> FALSE, cache |-> slot, slot |-> slot, heap |-> heap]

getGlobalStateCache(fail) ==
  LET o == Fresh(slot, proc) IN
  IF slot = 0
    THEN [threw |-> FALSE, cache |-> o, slot |-> slot,
          heap |-> [heap EXCEPT ![o] = DefaultCache]]
  ELSE IF heap[slot].version # CACHE_VERSION
    THEN IF fail
           THEN [threw |-> TRUE, cache |-> 0, slot |-> slot, heap |-> heap]
           ELSE [threw |-> FALSE, cache |-> o, slot |-> o,
                 heap |-> [heap EXCEPT ![o] = DefaultCache]]
  ELSE [threw |-> FALSE, cache |-> slot, slot |-> slot, heap |-> heap]

\* variant of the file read: the file is looked up under the key as given
getFromFileStorage_RawName(key, fail) ==
  IF fail \/ key \notin DOMAIN files THEN None
  ELSE JsonParse(files[key].text)

\* vscode.workspace.fs.readFile + JSON.parse inside getFromFileStorage: every
\* failure (not found, I/O error, parse error) is a null
getFromFileStorage(key, fail) ==
  LET name == sanitizeFileName(key) IN
  IF fail \/ name \notin DOMAIN files THEN None
  ELSE JsonParse(files[name].text)

\* vscode.workspace.fs.delete inside removeFromFileStorage: errors are swallowed
removeFromFileStorage(f, key, fail) ==
  IF fail THEN f ELSE Del(f, sanitizeFileName(key))

\* vscode.workspace.fs.writeFile of saveToFileStorage (wkey remembers the key
\* the file was written for; the code does not store it)
saveToFileStorage(f, key, cachedData) ==
  Put(f, sanitizeFileName(key), [text |-> JsonText(cachedData), wkey |-> key])

\* ------------------------------------------------------------ bookkeeping
FailChoices == IF faultsLeft > 0 THEN {FALSE, TRUE} ELSE {FALSE}

Dirty(pr) == [q \in Procs |-> [pr[q] EXCEPT !.clean = FALSE]]

\* the step of process p: its new record and the new backends
Commit(p, rec, s, h, f, fail) ==
  LET pr1 == [proc EXCEPT ![p] = IF fail THEN [rec EXCEPT !.failed = TRUE] ELSE rec]
      pr2 == IF fail THEN Dirty(pr1) ELSE pr1
  IN /\ proc' = pr2
     /\ slot' = s
     /\ heap' = Collect(h, s, pr2)
     /\ files' = f
     /\ faultsLeft' = IF fail THEN faultsLeft - 1 ELSE faultsLeft
     /\ UNCHANGED <<now, oracle, oracleDown, mode, lifeVars, sideVars>>

\* the operation returns to its caller
Finish(rec, result) ==
  [rec EXCEPT !.pc = "done", !.result = result, !.cache = 0, !.listed = {}]

\* the operation's own catch block logs the exception and returns
Catch(rec, result) == [Finish(rec, result) EXCEPT !.caught = TRUE]

\* what a get remembers of the operation that ran before it
PrevOf(r) ==
  [kind |-> r.kind, key |-> r.key, entry |-> r.entry, failed |-> r.failed,
   ok |-> r.clean /\ ~r.failed /\ r.pc = "done", snap |-> r.snap, over |-> r.over]

\* the payload a set of key k overwrites when it is called right after the
\* completed set of process p for the same key
Overwrites(p, k) ==
  IF ~Interleave /\ PrevOf(proc[p]).ok /\ proc[p].kind = "set" /\ proc[p].key = k
    THEN Some(The(proc[p].entry).data)
  ELSE None

\* what the two stores hold
InGlobal(k) ==
  slot # 0 /\ heap[slot].version = CACHE_VERSION /\ k \in DOMAIN heap[slot].data
InBlob(k) ==
  sanitizeFileName(k) \in DOMAIN files /\ files[sanitizeFileName(k)].wkey = k
GlobalHolds(k, e) == InGlobal(k) /\ heap[slot].data[k] = e
BlobHolds(k, e) == InBlob(k) /\ files[sanitizeFileName(k)].text = JsonText(e)

CanStart(p) ==
  /\ instance.id # 0
  /\ started < MaxOps
  /\ proc[p].pc \in {"idle", "done"}
  /\ IF Interleave THEN p = 1 \/ proc[1].pc # "idle" ELSE p = 1

Begin(p, kind, key) ==
  [IdleProc EXCEPT !.kind = kind, !.key = key, !.id = started + 1,
                   !.mismatch = UpdateOnRead,
                   !.alone = \A q \in Procs \ {p} : proc[q].pc \in {"idle", "done"},
                   !.prev = IF kind = "get" /\ ~Interleave THEN PrevOf(proc[p]) ELSE NoPrev]

\* the calls of getCurrentStateVersion one evaluation of isCacheValid makes: it
\* is awaited inside the STATE_BASED case only
OracleCalls_Always(metadata) == 1

OracleCalls(metadata) == IF metadata.strategy = "STATE_BASED" THEN 1 ELSE 0

Check(tier, cachedData) ==
  [tier |-> tier, entry |-> cachedData, at |-> now, ver |-> getCurrentStateVersion,
   down |-> oracleDown]

\* ------------------------------------------------------------ getCachedData
\* lines 1126-1130: the call of getGlobalStateCache
StartGet(p, key, fail) ==
  /\ CanStart(p)
  /\ fail => UpdateOnRead
  /\ started' = started + 1
  /\ LET g == getGlobalStateCache(fail)
         b == Begin(p, "get", key)
     IN IF g.threw
          THEN Commit(p, Catch(b, None), g.slot, g.heap, files, fail)
          ELSE Commit(p, [b EXCEPT !.pc = "get_entry", !.cache = g.cache],
                      g.slot, g.heap, files, fail)

\* variant: a hit in globalState renews the entry's timestamp
GetEntry_Touch(p, fail) ==
  /\ proc[p].pc = "get_entry"
  /\ UNCHANGED started
  /\ LET r == proc[p]
         ge == Lookup(heap[r.cache].data, r.key)
     IN IF ge # None
          THEN /\ ~fail
               /\ LET r1 == [r EXCEPT !.globalEntry = ge, !.cache = 0,
                                      !.checked = @ \cup {Check("global", The(ge))},
                                      !.oracleCalls = @ + OracleCalls(The(ge).metadata)]
                  IN IF isCacheValid(The(ge).metadata, r.key, now, getCurrentStateVersion)
                       THEN Commit(p, Finish(r1, Some(The(ge).data)), slot,
                                   [heap EXCEPT ![r.cache].data[r.key].metadata.timestamp = now],
                                   files, FALSE)
                       ELSE Commit(p, [r1 EXCEPT !.pc = "get_read"], slot, heap, files, FALSE)
          ELSE Commit(p, [r EXCEPT !.pc = "get_file", !.cache = 0,
                                   !.fileReads = @ + 1,
                                   !.fileData = getFromFileStorage(r.key, fail)],
                      slot, heap, files, fail)

\* variant: the file is read whatever the globalState entry is
GetEntry_FileAlways(p, fail) ==
  /\ proc[p].pc = "get_entry"
  /\ UNCHANGED started
  /\ LET r == proc[p]
         ge == Lookup(heap[r.cache].data, r.key)
     IN IF ge # None
          THEN /\ ~fail
               /\ LET r1 == [r EXCEPT !.globalEntry = ge, !.cache = 0,
                                      !.checked = @ \cup {Check("global", The(ge))},
                                      !.oracleCalls = @ + OracleCalls(The(ge).metadata)]
                  IN Commit(p, [r1 EXCEPT !.pc = "get_read"], slot, heap, files, FALSE)
          ELSE Commit(p, [r EXCEPT !.pc = "get_file", !.cache = 0,
                                   !.fileReads = @ + 1,
                                   !.fileData = getFromFileStorage(r.key, fail)],
                      slot, heap, files, fail)

\* lines 1131-1138: the globalState entry and its validity; with no entry the
\* file is read in the same turn
GetEntry(p, fail) ==
  /\ proc[p].pc = "get_entry"
  /\ UNCHANGED started
  /\ LET r == proc[p]
         ge == Lookup(heap[r.cache].data, r.key)
     IN IF ge # None
          THEN /\ ~fail
               /\ LET r1 == [r EXCEPT !.globalEntry = ge, !.cache = 0,
                                      !.checked = @ \cup {Check("global", The(ge))},
                                      !.oracleCalls = @ + OracleCalls(The(ge).metadata)]
                  IN IF isCacheValid(The(ge).metadata, r.key, now, getCurrentStateVersion)
                       THEN Commit(p, Finish(r1, Some(The(ge).data)), slot, heap, files, FALSE)
                       ELSE Commit(p, [r1 EXCEPT !.pc = "get_read"], slot, heap, files, FALSE)
          ELSE Commit(p, [r EXCEPT !.pc = "get_file", !.cache = 0,
                                   !.fileReads = @ + 1,
                                   !.fileData = getFromFileStorage(r.key, fail)],
                      slot, heap, files, fail)

\* line 1138: getFromFileStorage after an invalid globalState entry
GetRead(p, fail) ==
  /\ proc[p].pc = "get_read"
  /\ UNCHANGED started
  /\ Commit(p, [proc[p] EXCEPT !.pc = "get_file",
                               !.fileReads = @ + 1,
                               !.fileData = getFromFileStorage(proc[p].key, fail)],
            slot, heap, files, fail)

\* lines 1139-1152: the file entry's validity, then the lazy eviction
GetFile(p, fail) ==
  /\ proc[p].pc = "get_file"
  /\ UNCHANGED started
  /\ LET r == proc[p]
         fd == r.fileData
         r1 == IF fd # None
                 THEN [r EXCEPT !.checked = @ \cup {Check("file", The(fd))},
                                !.oracleCalls = @ + OracleCalls(The(fd).metadata)]
                 ELSE r
     IN IF fd # None /\ isCacheValid(The(fd).metadata, r.key, now, getCurrentStateVersion)
          THEN /\ ~fail
               /\ Commit(p, Finish(r1, Some(The(fd).data)), slot, heap, files, FALSE)
        ELSE IF r.globalEntry # None
          THEN /\ fail => UpdateOnRead
               /\ LET g == getGlobalStateCache(fail)
                  IN IF g.threw
                       THEN Commit(p, Catch(r1, None), g.slot, g.heap, files, fail)
                       ELSE Commit(p, [r1 EXCEPT !.pc = "get_rmg", !.cache = g.cache],
                                   g.slot, g.heap, files, fail)
        ELSE IF fd # None
          THEN Commit(p, Finish(r1, None), slot, heap,
                      removeFromFileStorage(files, r.key, fail), fail)
        ELSE /\ ~fail
             /\ Commit(p, Finish(r1, None), slot, heap, files, FALSE)

\* lines 1247-1251 under line 1145: removeFromGlobalState after its read
GetRemoveGlobal(p, fail) ==
  /\ proc[p].pc = "get_rmg"
  /\ UNCHANGED started
  /\ LET r == proc[p]
         c == r.cache
         has == r.key \in DOMAIN heap[c].data
         h1 == IF has THEN [heap EXCEPT ![c].data = Del(@, r.key)] ELSE heap
         s1 == IF has /\ ~fail THEN c ELSE slot
     IN /\ fail => has
        /\ IF fail
             THEN Commit(p, Catch(r, None), s1, h1, files, TRUE)
           ELSE IF r.fileData # None
             THEN Commit(p, [r EXCEPT !.pc = "get_rmf", !.cache = 0], s1, h1, files, FALSE)
           ELSE Commit(p, Finish(r, None), s1, h1, files, FALSE)

\* line 1148: removeFromFileStorage of the invalid file entry
GetRemoveFile(p, fail) ==
  /\ proc[p].pc = "get_rmf"
  /\ UNCHANGED started
  /\ Commit(p, Finish(proc[p], None), slot, heap,
            removeFromFileStorage(files, proc[p].key, fail), fail)

\* ------------------------------------------------------------ setCachedData
\* what a caller may pass: ttl 0 .. MaxTTL with every strategy, and params
\* given or not where the strategy reads them
AllInputs ==
  {in \in [strategy : Strategies, ttl : 0 .. MaxTTL, params : ParamChoices] :
     in.strategy # "PARAM_BASED" => in.params = None}

FewInputs ==
  {[strategy |-> "TIME_BASED", ttl |-> MaxTTL, params |-> None],
   [strategy |-> "STATE_BASED", ttl |-> MaxTTL, params |-> None],
   [strategy |-> "PERMANENT", ttl |-> 0, params |-> None]}

SetInputs ==
  CASE mode = "seq" -> AllInputs
    [] mode = "fault" -> FewInputs
    [] OTHER -> {[strategy |-> "TIME_BASED", ttl |-> MaxTTL, params |-> None]}

SetPayloads ==
  CASE mode = "seq" -> {PAtMax, POverMax}
    [] mode = "fault" -> {P150K, POverMax, PCircular}
    [] OTHER -> {P150K, POverMax}

\* lines 1166-1179: the metadata, the serialized size, and the first backend
\* call of cleanupStorageLocation
StartSet(p, key, data, in, fail) ==
  /\ CanStart(p)
  /\ started' = started + 1
  /\ LET metadata == [timestamp |-> now, ttl |-> in.ttl, stateVersion |-> getCurrentStateVersion,
                      strategy |-> in.strategy, params |-> in.params]
         cachedData == [data |-> data, metadata |-> metadata]
         b == [Begin(p, "set", key) EXCEPT
                 !.entry = Some(cachedData),
                 !.over = Overwrites(p, key),
                 !.preheld = GlobalHolds(key, cachedData) \/ BlobHolds(key, cachedData),
                 !.stale = IF FitsGlobalState(DataSize(cachedData))
                             THEN sanitizeFileName(key) \in DOMAIN files
                             ELSE InGlobal(key)]
     IN IF StringifyThrows(cachedData)
          THEN /\ ~fail
               /\ Commit(p, Catch([b EXCEPT !.failed = TRUE], None), slot, heap, files, FALSE)
        ELSE IF FitsGlobalState(DataSize(cachedData))
          THEN /\ fail => sanitizeFileName(key) \in DOMAIN files
               /\ Commit(p, [b EXCEPT !.pc = "set_save"], slot, heap,
                         removeFromFileStorage(files, key, fail), fail)
        ELSE /\ fail => UpdateOnRead
             /\ LET g == getGlobalStateCache(fail)
                IN IF g.threw
                     THEN Commit(p, [b EXCEPT !.pc = "set_write"], g.slot, g.heap, files, fail)
                     ELSE Commit(p, [b EXCEPT !.pc = "set_rmg", !.cache = g.cache],
                                 g.slot, g.heap, files, fail)

\* variant: a large set leaves the key's globalState entry in place
SetRemoveGlobal_Skip(p, fail) ==
  /\ proc[p].pc = "set_rmg"
  /\ UNCHANGED started
  /\ ~fail
  /\ Commit(p, [proc[p] EXCEPT !.pc = "set_write", !.cache = 0], slot, heap, files, FALSE)

\* lines 1247-1251 under line 1220: removeFromGlobalState of the stale copy;
\* cleanupStorageLocation swallows a rejected update
SetRemoveGlobal(p, fail) ==
  /\ proc[p].pc = "set_rmg"
  /\ UNCHANGED started
  /\ LET r == proc[p]
         c == r.cache
         has == r.key \in DOMAIN heap[c].data
         h1 == IF has THEN [heap EXCEPT ![c].data = Del(@, r.key)] ELSE heap
         s1 == IF has /\ ~fail THEN c ELSE slot
     IN /\ fail => has
        /\ Commit(p, [r EXCEPT !.pc = "set_write", !.cache = 0], s1, h1, files, fail)

\* lines 1185, 1271-1275: saveToFileStorage
SetWrite(p, fail) ==
  /\ proc[p].pc = "set_write"
  /\ UNCHANGED started
  /\ LET r == proc[p]
     IN Commit(p, IF fail THEN Catch(r, None) ELSE Finish(r, None), slot, heap,
               IF fail THEN files ELSE saveToFileStorage(files, r.key, The(r.entry)),
               fail)

\* lines 1182, 1241: saveToGlobalState reads the container
SetSave(p, fail) ==
  /\ proc[p].pc = "set_save"
  /\ UNCHANGED started
  /\ fail => UpdateOnRead
  /\ LET r == proc[p]
         g == getGlobalStateCache(fail)
     IN IF g.threw
          THEN Commit(p, Catch(r, None), g.slot, g.heap, files, fail)
          ELSE Commit(p, [r EXCEPT !.pc = "set_put", !.cache = g.cache],
                      g.slot, g.heap, files, fail)

\* lines 1242-1243: the entry is put into the object read, which is then
\* handed to globalState.update
SetPut(p, fail) ==
  /\ proc[p].pc = "set_put"
  /\ UNCHANGED started
  /\ LET r == proc[p]
         c == r.cache
         h1 == [heap EXCEPT ![c].data = Put(@, r.key, The(r.entry))]
     IN Commit(p, IF fail THEN Catch(r, None) ELSE Finish(r, None),
               IF fail THEN slot ELSE c, h1, files, fail)

\* --------------------------------------------------------- removeCachedData
\* line 1195: both removals are called in the same turn
StartRemove(p, key, failUpdate, failDelete) ==
  /\ CanStart(p)
  /\ started' = started + 1
  /\ ~(failUpdate /\ failDelete)
  /\ failUpdate => UpdateOnRead
  /\ failDelete => sanitizeFileName(key) \in DOMAIN files
  /\ LET g == getGlobalStateCache(failUpdate)
         b == Begin(p, "remove", key)
         f1 == removeFromFileStorage(files, key, failDelete)
     IN IF g.threw
          THEN Commit(p, Catch(b, None), g.slot, g.heap, f1, TRUE)
          ELSE Commit(p, [b EXCEPT !.pc = "rm_g", !.cache = g.cache],
                      g.slot, g.heap, f1, failDelete)

\* lines 1248-1251: removeFromGlobalState after its read
RemoveGlobal(p, fail) ==
  /\ proc[p].pc = "rm_g"
  /\ UNCHANGED started
  /\ LET r == proc[p]
         c == r.cache
         has == r.key \in DOMAIN heap[c].data
         h1 == IF has THEN [heap EXCEPT ![c].data = Del(@, r.key)] ELSE heap
         s1 == IF has /\ ~fail THEN c ELSE slot
     IN /\ fail => has
        /\ Commit(p, IF fail THEN Catch(r, None) ELSE Finish(r, None), s1, h1, files, fail)

\* --------------------------------------------------------------- clearCache
\* lines 1204-1205: the container is replaced by a new empty one
StartClear(p, fail) ==
  /\ CanStart(p)
  /\ started' = started + 1
  /\ LET b == [Begin(p, "clear", <<>>) EXCEPT
                 !.snap = {k \in Keys : InGlobal(k) \/ InBlob(k)}]
         o == Fresh(slot, proc)
     IN IF fail
          THEN Commit(p, Catch(b, None), slot, heap, files, TRUE)
          ELSE Commit(p, [b EXCEPT !.pc = "clr_list"], o,
                      [heap EXCEPT ![o] = DefaultCache], files, FALSE)

\* variant of clearFileStorage: no file is listed
ClearList_NoFiles(p, fail) ==
  /\ proc[p].pc = "clr_list"
  /\ UNCHANGED started
  /\ Commit(p, Finish(proc[p], None), slot, heap, files, fail)

\* line 1292: readDirectory
ClearList(p, fail) ==
  /\ proc[p].pc = "clr_list"
  /\ UNCHANGED started
  /\ LET r == proc[p]
     IN IF fail \/ DOMAIN files = {}
          THEN Commit(p, Finish(r, None), slot, heap, files, fail)
          ELSE Commit(p, [r EXCEPT !.pc = "clr_del", !.listed = DOMAIN files],
                      slot, heap, files, FALSE)

\* lines 1293-1300: one delete per listed file; `stuck` are the deletes that fail
ClearDelete(p, stuck) ==
  /\ proc[p].pc = "clr_del"
  /\ UNCHANGED started
  /\ stuck \subseteq proc[p].listed \cap DOMAIN files
  /\ Cardinality(stuck) <= faultsLeft
  /\ Cardinality(stuck) <= 1
  /\ LET r == proc[p]
         f1 == [x \in (DOMAIN files) \ (r.listed \ stuck) |-> files[x]]
     IN Commit(p, Finish(r, None), slot, heap, f1, stuck # {})

\* ----------------------------------------------------------- debugCacheEntry
\* line 1351: getGlobalStateCache
StartDebug(p, key, fail) ==
  /\ CanStart(p)
  /\ started' = started + 1
  /\ fail => UpdateOnRead
  /\ LET g == getGlobalStateCache(fail)
         b == Begin(p, "debug", key)
     IN IF g.threw
          THEN Commit(p, Catch(b, None), g.slot, g.heap, files, fail)
          ELSE Commit(p, [b EXCEPT !.pc = "dbg_read", !.cache = g.cache],
                      g.slot, g.heap, files, fail)

\* lines 1352-1382: both entries are read and described
DebugRead(p, fail) ==
  /\ proc[p].pc = "dbg_read"
  /\ UNCHANGED started
  /\ LET r == proc[p]
     IN Commit(p, Finish([r EXCEPT !.globalEntry = Lookup(heap[r.cache].data, r.key),
                                   !.fileData = getFromFileStorage(r.key, fail)], None),
               slot, heap, files, fail)

\* ---------------------------------------------------------------- singleton
CanCall(c) == started < MaxOps /\ life[c].pc # "ensure"

\* what vscode.workspace.fs.createDirectory may do in ensureStorageDirectory
DirectoryOutcomes == {"created", "exists", "fsError", "otherError"}

\* ensureStorageDirectory rethrows a FileSystemError whose code is not
\* FileExists and swallows every other error
EnsureRejects(outcome) == outcome = "fsError"

\* an initialize has rejected by now
InitFailed == \E d \in Procs : life[d].pc = "rejected" \/ life[d].failed

\* variant of initialize: a new instance is constructed on every call
Initialize_Always(c, context) ==
  /\ CanCall(c)
  /\ started' = started + 1
  /\ ran' = TRUE
  /\ instance' = [id |-> IF instance.id = 0 THEN 1 ELSE instance.id + 1,
                  context |-> context]
  /\ life' = [life EXCEPT ![c] = [IdleCall EXCEPT !.pc = "ensure",
                                    !.call = "initialize", !.context = context]]
  /\ UNCHANGED <<slot, heap, files, now, oracle, oracleDown, proc, faultsLeft, mode, handed, sideVars>>

\* lines 1101-1104: initialize up to its await; the instance is stored before
\* the storage directory is created
Initialize(c, context) ==
  /\ CanCall(c)
  /\ started' = started + 1
  /\ ran' = TRUE
  /\ IF instance.id = 0
       THEN /\ instance' = [id |-> 1, context |-> context]
            /\ life' = [life EXCEPT ![c] = [IdleCall EXCEPT !.pc = "ensure",
                                              !.call = "initialize",
                                              !.context = context]]
       ELSE /\ instance' = instance
            /\ life' = [life EXCEPT ![c] = [IdleCall EXCEPT !.pc = "resolved",
                                              !.call = "initialize",
                                              !.context = context, !.ran = ran,
                                              !.failed = InitFailed]]
  /\ UNCHANGED <<slot, heap, files, now, oracle, oracleDown, proc, faultsLeft, mode, handed, sideVars>>

\* variant: an initialize that rejects takes the instance back
EnsureStorageDirectory_Uninstall(c, outcome) ==
  /\ life[c].pc = "ensure"
  /\ life' = [life EXCEPT ![c].pc = IF EnsureRejects(outcome) THEN "rejected"
                                    ELSE "resolved"]
  /\ instance' = IF EnsureRejects(outcome) THEN NoInstance ELSE instance
  /\ UNCHANGED <<slot, heap, files, now, oracle, oracleDown, proc, started, faultsLeft,
                 mode, ran, handed, sideVars>>

\* lines 1104, 1115-1124: the await of ensureStorageDirectory ends
EnsureStorageDirectory(c, outcome) ==
  /\ life[c].pc = "ensure"
  /\ life' = [life EXCEPT ![c].pc = IF EnsureRejects(outcome) THEN "rejected"
                                    ELSE "resolved"]
  /\ UNCHANGED <<slot, heap, files, now, oracle, oracleDown, proc, started, faultsLeft,
                 mode, instance, ran, handed, sideVars>>

\* lines 1108-1113: getInstance
GetInstance(c) ==
  /\ CanCall(c)
  /\ started' = started + 1
  /\ IF instance.id = 0
       THEN /\ life' = [life EXCEPT ![c] = [IdleCall EXCEPT !.pc = "threw",
                                              !.call = "getInstance", !.ran = ran,
                                              !.failed = InitFailed]]
            /\ handed' = handed
       ELSE /\ life' = [life EXCEPT ![c] = [IdleCall EXCEPT !.pc = "returned",
                                              !.call = "getInstance",
                                              !.got = instance.id, !.ran = ran,
                                              !.failed = InitFailed]]
            /\ handed' = handed \cup {instance.id}
  /\ UNCHANGED <<slot, heap, files, now, oracle, oracleDown, proc, faultsLeft, mode,
                 instance, ran, sideVars>>

\* ----------------------------------------------------------------- KeyCodec
\* extractParamsFromKey(key) and isValidCacheKey(key) are applied to the key
ApplyKeyCodec ==
  /\ codec.pc = "input"
  /\ codec' = [codec EXCEPT !.pc = "done",
                            !.params = extractParamsFromKey(codec.key),
                            !.valid = isValidCacheKey(codec.key)]
  /\ UNCHANGED <<slot, heap, files, now, oracle, oracleDown, proc, started, faultsLeft,
                 mode, lifeVars, isUpdating, refreshes>>

\* ------------------------------------------------------------------ refresh
\* the call is between isUpdating = true and its finally block
InFlight(r) == refreshes[r].pc \in {"token", "fetch", "render"}

\* calls are numbered in the order they are made
NextCall(r) ==
  /\ refreshes[r].pc = "idle"
  /\ \A q \in Calls : q < r => refreshes[q].pc # "idle"

\* extension.ts 420-432: refresh up to its first await.  The guard returns at
\* once; otherwise isUpdating is set and getCursorToken is awaited.
refresh(r, forceRefresh, origin) ==
  LET call == [IdleRefresh EXCEPT !.origin = origin, !.forceRefresh = forceRefresh,
                                  !.busy = \E q \in Calls \ {r} : InFlight(q)]
  IN IF isUpdating /\ ~forceRefresh
       THEN /\ refreshes' = [refreshes EXCEPT ![r] = [call EXCEPT !.pc = "done",
                                                                 !.end = "skipped"]]
            /\ isUpdating' = isUpdating
     ELSE /\ refreshes' = [refreshes EXCEPT ![r] = [call EXCEPT !.pc = "token"]]
          /\ isUpdating' = TRUE

\* variant of the finally block: the guard is not released
Finally_Keep(r, end) ==
  /\ refreshes' = [refreshes EXCEPT ![r].pc = "done", ![r].end = end]
  /\ isUpdating' = isUpdating

\* extension.ts 515-517: the finally block, whatever way the try block ended
Finally(r, end) ==
  /\ refreshes' = [refreshes EXCEPT ![r].pc = "done", ![r].end = end]
  /\ isUpdating' = FALSE

\* extension.ts 529: the interval timer fires and calls refresh()
TimerTick(r) ==
  /\ NextCall(r)
  /\ refresh(r, FALSE, "timer")
  /\ UNCHANGED <<slot, heap, files, now, oracle, oracleDown, proc, started, faultsLeft,
                 mode, lifeVars, codec>>

\* extension.ts 21-24: softReloadCommand calls refresh(false)
softReloadCommand(r) ==
  /\ NextCall(r)
  /\ refresh(r, FALSE, "soft")
  /\ UNCHANGED <<slot, heap, files, now, oracle, oracleDown, proc, started, faultsLeft,
                 mode, lifeVars, codec>>

\* extension.ts 26-28: hardReloadCommand awaits clearAllCacheIncludingPermanent
hardReloadCommand(r) ==
  /\ NextCall(r)
  /\ refreshes' = [refreshes EXCEPT ![r] = [IdleRefresh EXCEPT !.pc = "clearing",
                                                              !.origin = "hard",
                                                              !.forceRefresh = TRUE]]
  /\ UNCHANGED <<slot, heap, files, now, oracle, oracleDown, proc, started, faultsLeft,
                 mode, lifeVars, codec, isUpdating>>

\* extension.ts 28-29: the clearing settles; when it resolved, refresh(true)
\* is called, and when it rejected the command ends without a refresh
HardReloadCleared(r, outcome) ==
  /\ refreshes[r].pc = "clearing"
  /\ IF outcome = "throws"
       THEN /\ refreshes' = [refreshes EXCEPT ![r].pc = "done", ![r].end = "notCalled"]
            /\ isUpdating' = isUpdating
     ELSE refresh(r, TRUE, "hard")
  /\ UNCHANGED <<slot, heap, files, now, oracle, oracleDown, proc, started, faultsLeft,
                 mode, lifeVars, codec>>

\* extension.ts 432-443: getCursorToken settles; without a token refresh
\* returns, and a rejection goes to the catch block
TokenSettles(r, outcome) ==
  /\ refreshes[r].pc = "token"
  /\ CASE outcome = "token" ->
            /\ refreshes' = [refreshes EXCEPT ![r].pc = "fetch"]
            /\ isUpdating' = isUpdating
       [] outcome = "none" -> Finally(r, "noToken")
       [] OTHER -> Finally(r, "error")
  /\ UNCHANGED <<slot, heap, files, now, oracle, oracleDown, proc, started, faultsLeft,
                 mode, lifeVars, codec>>

\* extension.ts 445-460: fetchAllUsageData settles
FetchSettles(r, outcome) ==
  /\ refreshes[r].pc = "fetch"
  /\ CASE outcome = "data" ->
            /\ refreshes' = [refreshes EXCEPT ![r].pc = "render"]
            /\ isUpdating' = isUpdating
       [] outcome = "none" -> Finally(r, "noData")
       [] OTHER -> Finally(r, "error")
  /\ UNCHANGED <<slot, heap, files, now, oracle, oracleDown, proc, started, faultsLeft,
                 mode, lifeVars, codec>>

\* extension.ts 462-517: updateUsageData settles and refresh ends
RenderSettles(r, outcome) ==
  /\ refreshes[r].pc = "render"
  /\ Finally(r, IF outcome = "ok" THEN "success" ELSE "error")
  /\ UNCHANGED <<slot, heap, files, now, oracle, oracleDown, proc, started, faultsLeft,
                 mode, lifeVars, codec>>

\* an await of call r settles
Settle(r) ==
  \/ \E outcome \in {"ok", "throws"} : HardReloadCleared(r, outcome)
  \/ \E outcome \in {"token", "none", "throws"} : TokenSettles(r, outcome)
  \/ \E outcome \in {"data", "none", "throws"} : FetchSettles(r, outcome)
  \/ \E outcome \in {"ok", "throws"} : RenderSettles(r, outcome)

\* -------------------------------------------------------------- environment
Quiet == \A q \in Procs : proc[q].pc \in {"idle", "done"}

\* time passes
Tick ==
  /\ Quiet
  /\ now < MaxTime
  /\ now' = now + 1
  /\ proc' = Dirty(proc)
  /\ UNCHANGED <<slot, heap, files, oracle, oracleDown, started, faultsLeft, mode, lifeVars, sideVars>>

\* the external system of record changes
OracleChange ==
  /\ Quiet
  /\ oracle < MaxVersion
  /\ oracle' = oracle + 1
  /\ proc' = Dirty(proc)
  /\ UNCHANGED <<slot, heap, files, now, oracleDown, started, faultsLeft, mode, lifeVars, sideVars>>

\* the container is replaced by one of another schema version (as the
\* version-mismatch test injects it), or the slot is wiped
CorruptGlobalState(wipe) ==
  /\ faultsLeft > 0
  /\ Quiet
  /\ slot # 0
  /\ heap[slot].version = CACHE_VERSION
  /\ faultsLeft' = faultsLeft - 1
  /\ proc' = Dirty(proc)
  /\ IF wipe
       THEN /\ slot' = 0
            /\ heap' = Collect(heap, 0, proc)
       ELSE /\ slot' = slot
            /\ heap' = [heap EXCEPT ![slot].version = STALE_VERSION]
  /\ UNCHANGED <<files, now, oracle, oracleDown, started, mode, lifeVars, sideVars>>

\* a file's content is damaged
CorruptFile(name) ==
  /\ faultsLeft > 0
  /\ Quiet
  /\ name \in DOMAIN files
  /\ files[name].text.json
  /\ faultsLeft' = faultsLeft - 1
  /\ proc' = Dirty(proc)
  /\ files' = [files EXCEPT ![name].text = MalformedText]
  /\ UNCHANGED <<slot, heap, now, oracle, oracleDown, started, mode, lifeVars, sideVars>>

\* reading the editor's database starts to fail, or works again
OracleFail ==
  /\ faultsLeft > 0
  /\ Quiet
  /\ ~oracleDown
  /\ oracleDown' = TRUE
  /\ faultsLeft' = faultsLeft - 1
  /\ proc' = Dirty(proc)
  /\ UNCHANGED <<slot, heap, files, now, oracle, started, mode, lifeVars, sideVars>>

OracleRecover ==
  /\ Quiet
  /\ oracleDown
  /\ oracleDown' = FALSE
  /\ proc' = Dirty(proc)
  /\ UNCHANGED <<slot, heap, files, now, oracle, started, faultsLeft, mode, lifeVars, sideVars>>

\* ------------------------------------------------------------ specification
Operations ==
  \/ \E p \in Procs, k \in Keys, fail \in FailChoices : StartGet(p, k, fail)
  \/ \E p \in Procs, fail \in FailChoices : GetEntry(p, fail)
  \/ \E p \in Procs, fail \in FailChoices : GetRead(p, fail)
  \/ \E p \in Procs, fail \in FailChoices : GetFile(p, fail)
  \/ \E p \in Procs, fail \in FailChoices : GetRemoveGlobal(p, fail)
  \/ \E p \in Procs, fail \in FailChoices : GetRemoveFile(p, fail)
  \/ \E p \in Procs, k \in Keys, d \in SetPayloads, in \in SetInputs, fail \in FailChoices :
       StartSet(p, k, d, in, fail)
  \/ \E p \in Procs, fail \in FailChoices : SetRemoveGlobal(p, fail)
  \/ \E p \in Procs, fail \in FailChoices : SetWrite(p, fail)
  \/ \E p \in Procs, fail \in FailChoices : SetSave(p, fail)
  \/ \E p \in Procs, fail \in FailChoices : SetPut(p, fail)
  \/ \E p \in Procs, k \in Keys, fu \in FailChoices, fd \in FailChoices :
       StartRemove(p, k, fu, fd)
  \/ \E p \in Procs, fail \in FailChoices : RemoveGlobal(p, fail)
  \/ \E p \in Procs, fail \in FailChoices : StartClear(p, fail)
  \/ \E p \in Procs, fail \in FailChoices : ClearList(p, fail)
  \/ \E p \in Procs, stuck \in SUBSET FileNames : ClearDelete(p, stuck)
  \/ \E p \in Procs, k \in Keys, fail \in FailChoices : StartDebug(p, k, fail)
  \/ \E p \in Procs, fail \in FailChoices : DebugRead(p, fail)

Next ==
  \/ Operations
  \/ Tick
  \/ OracleChange

NextFault ==
  \/ Operations
  \/ Tick
  \/ OracleChange
  \/ \E wipe \in BOOLEAN : CorruptGlobalState(wipe)
  \/ \E name \in FileNames : CorruptFile(name)
  \/ OracleFail
  \/ OracleRecover

NextLife ==
  \/ \E c \in Procs, context \in Contexts : Initialize(c, context)
  \/ \E c \in Procs, outcome \in DirectoryOutcomes : EnsureStorageDirectory(c, outcome)
  \/ \E c \in Procs : GetInstance(c)

\* operations run one after the other, on backends that do not fail
Spec == Init /\ [][Next]_vars

\* operations run one after the other, on backends that may fail or be damaged
SpecFault == InitFault /\ [][NextFault]_vars

\* operations interleave at their await points
SpecConc == InitConc /\ [][Next]_vars

NextKey == ApplyKeyCodec

NextRefresh ==
  \/ \E r \in Calls : TimerTick(r)
  \/ \E r \in Calls : softReloadCommand(r)
  \/ \E r \in Calls : hardReloadCommand(r)
  \/ \E r \in Calls : Settle(r)

\* timer ticks, soft reloads and hard reloads, interleaved at their awaits
SpecRefresh == InitRefresh /\ [][NextRefresh]_vars

\* the same, where every promise a call awaits settles
SpecRefreshFair == SpecRefresh /\ \A r \in Calls : WF_vars(Settle(r))

\* the functions of cacheUtils applied to every key of the bounded set
SpecKey == InitKey /\ [][NextKey]_vars

\* callers initialize the service and ask for its instance
SpecLife == InitLife /\ [][NextLife]_vars

\* ------------------------------------------------------------------ claims
IsDone(p, kind) == proc[p].pc = "done" /\ proc[p].kind = kind

\* the get of process p ran right after a completed set of the same key: no
\* time passed, the oracle did not move, no backend call failed
RightAfterSet(p) ==
  /\ IsDone(p, "get")
  /\ proc[p].prev.kind = "set"
  /\ proc[p].prev.key = proc[p].key
  /\ proc[p].prev.ok
  /\ proc[p].clean
  /\ ~proc[p].failed

PrevMeta(p) == The(proc[p].prev.entry).metadata
PrevData(p) == The(proc[p].prev.entry).data

\* the data model: a ttl of 0 only with PERMANENT
TtlAllowed(m) == m.strategy # "PERMANENT" => m.ttl > 0

\* C1 as stated: a get right after a set returns the data that was set, for
\* every key, payload, strategy, ttl and params.
C1_AsStated ==
  \A p \in Procs :
    RightAfterSet(p) /\ TtlAllowed(PrevMeta(p)) =>
      proc[p].result = Some(PrevData(p))

\* C1: a get right after a set returns the data that was set, in either tier,
\* provided a PARAM_BASED set was given the params extractParamsFromKey derives
\* from the key.
C1_RoundTrip ==
  \A p \in Procs :
    ( /\ RightAfterSet(p)
      /\ TtlAllowed(PrevMeta(p))
      /\ PrevMeta(p).strategy = "PARAM_BASED" =>
           PrevMeta(p).params = extractParamsFromKey(proc[p].key) ) =>
      proc[p].result = Some(PrevData(p))

C1_Witness ==
  \E p \in Procs :
    /\ RightAfterSet(p)
    /\ PrevMeta(p).strategy = "PARAM_BASED"
    /\ PrevMeta(p).ttl > 0
    /\ PrevMeta(p).params = extractParamsFromKey(proc[p].key)
    /\ PrevData(p) = POverMax
    /\ proc[p].result = Some(POverMax)

\* C2: whatever backend call fails, every operation returns normally; a get in
\* which a call failed returns null, and a set whose failure reached its catch
\* block is a skipped write: the entry it was given is in neither store.
C2_Advisory ==
  \A p \in Procs :
    proc[p].pc = "done" =>
      /\ proc[p].kind = "get" /\ proc[p].failed => proc[p].result = None
      /\ proc[p].kind = "set" /\ proc[p].caught /\ ~proc[p].preheld =>
           /\ ~GlobalHolds(proc[p].key, The(proc[p].entry))
           /\ ~BlobHolds(proc[p].key, The(proc[p].entry))

\* C3: once every operation has completed, no key has an entry in the
\* globalState container and in file storage at the same time.
C3_SingleTier ==
  Quiet => \A k \in Keys : ~(InGlobal(k) /\ InBlob(k))

\* processes p and q ran the only two operations since nothing was in flight
PairSince(p, q) ==
  /\ p # q
  /\ proc[p].pc = "done" /\ proc[q].pc = "done"
  /\ {proc[p].id, proc[q].id} = {started - 1, started}
  /\ proc[IF proc[p].id < proc[q].id THEN p ELSE q].alone

SetFits(p) == DataSize(The(proc[p].entry)) <= MAX_GLOBAL_STATE_SIZE

\* C4: after two interleaved sets of different keys into the container, or a
\* set and a remove of different keys, the container holds the effect of both.
C4_NoLostUpdate ==
  \A p, q \in Procs :
    ( /\ PairSince(p, q)
      /\ proc[p].kind = "set" /\ SetFits(p) /\ ~proc[p].failed
      /\ proc[p].key # proc[q].key
      /\ \/ proc[q].kind = "set" /\ SetFits(q) /\ ~proc[q].failed
         \/ proc[q].kind = "remove" /\ ~proc[q].failed ) =>
      GlobalHolds(proc[p].key, The(proc[p].entry))

\* C5: when a clear and one other operation have run interleaved and both have
\* completed, every key that held an entry when clearCache was called (and that
\* the other operation did not set) is absent from both stores.
C5_ClearSafe ==
  \A p, q \in Procs :
    PairSince(p, q) /\ proc[p].kind = "clear" /\ ~proc[p].failed =>
      \A k \in proc[p].snap :
        ~(proc[q].kind = "set" /\ proc[q].key = k) =>
          ~InGlobal(k) /\ ~InBlob(k)

\* C6: a completed set has put the entry into the globalState container exactly
\* when its serialized size is at most the threshold, into file storage
\* otherwise, and the other tier holds no copy of the key.
C6_TierBySize ==
  \A p \in Procs :
    IsDone(p, "set") /\ ~proc[p].failed =>
      LET e == The(proc[p].entry)
          k == proc[p].key
      IN IF DataSize(e) <= MAX_GLOBAL_STATE_SIZE
           THEN GlobalHolds(k, e) /\ ~InBlob(k)
           ELSE BlobHolds(k, e) /\ ~InGlobal(k)

C6_Witness ==
  \E p \in Procs :
    /\ IsDone(p, "set")
    /\ proc[p].stale
    /\ The(proc[p].entry).data = POverMax
    /\ BlobHolds(proc[p].key, The(proc[p].entry))
    /\ ~InGlobal(proc[p].key)

\* C7: a payload of 150 KB is over the per-entry threshold: a completed set of
\* it has put the entry into file storage and not into the container.
C7_LargeInBlob ==
  \A p \in Procs :
    IsDone(p, "set") /\ ~proc[p].failed /\ The(proc[p].entry).data = P150K =>
      /\ BlobHolds(proc[p].key, The(proc[p].entry))
      /\ ~InGlobal(proc[p].key)

\* the checks a get made: c was the one that decided it when no entry of a
\* later tier was looked at
Decisive(p, c) ==
  c.tier = "file" \/ \A c2 \in proc[p].checked : c2.tier = "global"

Age(c) == c.at - c.entry.metadata.timestamp

PermanentIn(k) ==
  \/ InGlobal(k) /\ heap[slot].data[k].metadata.strategy = "PERMANENT"
  \/ /\ InBlob(k)
     /\ files[sanitizeFileName(k)].text.json
     /\ The(files[sanitizeFileName(k)].text.doc).metadata.strategy = "PERMANENT"

\* the step belongs to a removeCachedData or setCachedData of key k, or to a
\* clearCache
ExplicitStep(k) ==
  \E p \in Procs :
    /\ proc'[p] # proc[p]
    /\ \/ proc'[p].kind = "clear"
       \/ proc'[p].kind \in {"remove", "set"} /\ proc'[p].key = k

\* C9: a get that finds a PERMANENT entry returns its data whatever the time
\* and the oracle version, and a stored PERMANENT entry disappears only by a
\* removeCachedData or setCachedData of its key or by a clearCache.
C9_Permanent ==
  /\ [](\A p \in Procs :
          IsDone(p, "get") =>
            \A c \in proc[p].checked :
              c.entry.metadata.strategy = "PERMANENT" =>
                proc[p].result = Some(c.entry.data))
  /\ [][\A k \in Keys :
          PermanentIn(k) /\ ~PermanentIn(k)' => ExplicitStep(k)]_vars

StateValid(c) ==
  /\ Age(c) < c.entry.metadata.ttl
  /\ c.ver = c.entry.metadata.stateVersion

C11_OracleFailure ==
  \A p \in Procs :
    IsDone(p, "get") =>
      \A c \in proc[p].checked :
        ( /\ c.entry.metadata.strategy = "STATE_BASED"
          /\ c.down
          /\ Decisive(p, c) ) => proc[p].result = None

\* the key under which process p looked the entry of check c up still yields
\* the params recorded in the entry, and the entry is younger than its ttl
ParamValid(p, c) ==
  /\ Age(c) < c.entry.metadata.ttl
  /\ extractParamsFromKey(proc[p].key) = c.entry.metadata.params

C13_ClearWipes ==
  \A p \in Procs :
    /\ IsDone(p, "clear") /\ ~proc[p].failed =>
         /\ slot # 0
         /\ heap[slot] = DefaultCache
         /\ files = EmptyMap
    /\ IsDone(p, "get") /\ proc[p].prev.kind = "clear" /\ ~proc[p].prev.failed =>
         proc[p].result = None

C13_Witness ==
  \E p \in Procs :
    /\ IsDone(p, "get")
    /\ proc[p].prev.kind = "clear"
    /\ proc[p].key \in proc[p].prev.snap
    /\ proc[p].result = None
    /\ files = EmptyMap
    /\ heap[slot] = DefaultCache

\* the step is one of process p's operation (and not the environment's, which
\* changes no more of a process than its `clean` mark)
StepOf(p) == [proc'[p] EXCEPT !.clean = TRUE] # [proc[p] EXCEPT !.clean = TRUE]

\* what the two stores hold for key k
Stored(k) ==
  [global |-> IF InGlobal(k) THEN Some(heap[slot].data[k]) ELSE None,
   blob |-> IF InBlob(k) THEN Some(files[sanitizeFileName(k)].text) ELSE None]

RemoveGone ==
  \A p \in Procs :
    /\ IsDone(p, "remove") /\ ~proc[p].failed =>
         /\ ~InGlobal(proc[p].key)
         /\ sanitizeFileName(proc[p].key) \notin DOMAIN files
    /\ ( /\ IsDone(p, "get")
         /\ proc[p].prev.kind = "remove"
         /\ proc[p].prev.key = proc[p].key
         /\ ~proc[p].prev.failed ) => proc[p].result = None

\* a step of a removeCachedData leaves the entries of all other keys alone
RemoveFrame ==
  \A p \in Procs :
    StepOf(p) /\ proc'[p].kind = "remove" =>
      \A k \in Keys \ {proc'[p].key} : Stored(k)' = Stored(k)

\* C14: when removeCachedData(key) has completed the key has no entry in either
\* tier and a get of it returns null, and the entries of other keys are as they
\* were.
C14_RemoveBoth == []RemoveGone /\ [][RemoveFrame]_vars

\* the value of the globalState slot
Container == IF slot = 0 THEN None ELSE Some(heap[slot])

\* C15: a step of a removeCachedData(key), taken while the key has no entry in
\* either tier, leaves the container and the files exactly as they were.
C15_RemoveAbsent ==
  [][\A p \in Procs :
       ( /\ StepOf(p)
         /\ proc'[p].kind = "remove"
         /\ ~InGlobal(proc'[p].key)
         /\ ~InBlob(proc'[p].key) ) =>
         Container' = Container /\ files' = files]_vars

\* a step in which an operation obtains the container from getGlobalStateCache
\* while the stored one has another schema version
ReadsStale(p) ==
  /\ UpdateOnRead
  /\ proc[p].cache = 0
  /\ proc'[p].cache # 0

\* a get that started on a container of another schema version looked at no
\* entry of it: it returns null or what the key's file holds
StaleIsAbsent ==
  \A p \in Procs :
    IsDone(p, "get") /\ proc[p].mismatch =>
      /\ \A c \in proc[p].checked : c.tier = "file"
      /\ proc[p].result # None =>
           \E c \in proc[p].checked : proc[p].result = Some(c.entry.data)

C17_DebugReadOnly ==
  [][\A p \in Procs :
       StepOf(p) /\ proc'[p].kind = "debug" =>
         Container' = Container /\ files' = files]_vars

\* what getCachedData(k) returns when called in the present state
WouldGet(k) ==
  LET ge == IF InGlobal(k) THEN Some(heap[slot].data[k]) ELSE None
      fd == getFromFileStorage(k, FALSE)
  IN IF ge # None /\ isCacheValid(The(ge).metadata, k, now, getCurrentStateVersion)
       THEN Some(The(ge).data)
     ELSE IF fd # None /\ isCacheValid(The(fd).metadata, k, now, getCurrentStateVersion)
       THEN Some(The(fd).data)
     ELSE None

\* C18: no step of a set, a remove or a get (with its lazy eviction) of one key
\* changes what getCachedData returns for another key, also for keys that
\* differ only in characters the file-name sanitizer replaces.
C18_KeyIsolation ==
  [][\A p \in Procs :
       StepOf(p) /\ proc'[p].kind \in {"set", "remove", "get"} =>
         \A k \in Keys \ {proc'[p].key} : WouldGet(k)' = WouldGet(k)]_vars

\* the file of key k holds text that is no JSON
Malformed(k) ==
  /\ sanitizeFileName(k) \in DOMAIN files
  /\ ~files[sanitizeFileName(k)].text.json

\* C19: a get of a key whose file holds text that does not parse evaluates no
\* file entry and returns what it would without the file: the valid entry of
\* the container, or null.
C19_MalformedBlob ==
  \A p \in Procs :
    IsDone(p, "get") /\ proc[p].clean /\ Malformed(proc[p].key) =>
      /\ \A c \in proc[p].checked : c.tier = "global"
      /\ proc[p].result # None =>
           \E c \in proc[p].checked : proc[p].result = Some(c.entry.data)

C19_Witness ==
  \E p \in Procs :
    /\ IsDone(p, "get")
    /\ proc[p].clean
    /\ Malformed(proc[p].key)
    /\ proc[p].prev.kind = "set"
    /\ proc[p].prev.key = proc[p].key
    /\ The(proc[p].prev.entry).data = POverMax
    /\ proc[p].result = None

\* every getInstance call made before any initialize threw, and every one made
\* after an initialize returned the one instance there is
SingletonCalls ==
  /\ \A c \in Procs :
       life[c].call = "getInstance" =>
         IF life[c].ran
           THEN life[c].pc = "returned" /\ instance.id # 0 /\ life[c].got = instance.id
           ELSE life[c].pc = "threw"
  /\ Cardinality(handed) <= 1

\* C20: getInstance throws as long as initialize has not been called; once it
\* has, every getInstance returns the same instance, and no later initialize
\* (whatever its context) replaces it.
C20_Singleton ==
  /\ []SingletonCalls
  /\ [][instance.id # 0 => instance' = instance]_vars

C20_Witness ==
  \E c, d \in Procs :
    /\ life[c].pc = "returned"
    /\ life[d].call = "initialize"
    /\ life[d].pc = "resolved"
    /\ life[d].context # instance.context
    /\ life[c].got = instance.id

RECURSIVE AfterFirstColon(_)
\* what follows the first ':' of a string, undefined when it has none
AfterFirstColon(str) ==
  IF str = <<>> THEN None
  ELSE IF Head(str) = ":" THEN Some(Tail(str))
  ELSE AfterFirstColon(Tail(str))

\* C21: extractParamsFromKey returns every segment of the key after the first
\* one, joined with ':' (which is what follows the key's first colon), and
\* undefined for a key with fewer than two segments.
C21_ExtractParams ==
  codec.pc = "done" => codec.params = AfterFirstColon(codec.key)

\* the entries of key k that getCachedData would evaluate as invalid now
InvalidInGlobal(k) ==
  /\ InGlobal(k)
  /\ ~isCacheValid(heap[slot].data[k].metadata, k, now, getCurrentStateVersion)
InvalidInBlob(k) ==
  LET fd == getFromFileStorage(k, FALSE) IN
  /\ fd # None
  /\ ~isCacheValid(The(fd).metadata, k, now, getCurrentStateVersion)

\* the get of process p has returned and no backend call of it failed
Returned(p) == IsDone(p, "get") /\ proc[p].clean /\ ~proc[p].failed

\* C22: when a get reports absent after it found entries and judged them
\* invalid, neither store holds an entry for the key on return; and when a get
\* returns a hit, no invalid copy of the key is left in either store.
C22_LazyEviction ==
  \A p \in Procs :
    Returned(p) =>
      /\ proc[p].result = None /\ proc[p].checked # {} =>
           /\ ~InGlobal(proc[p].key)
           /\ getFromFileStorage(proc[p].key, FALSE) = None
      /\ proc[p].result # None =>
           /\ ~InvalidInGlobal(proc[p].key)
           /\ ~InvalidInBlob(proc[p].key)

\* the first half of C22 alone
C22_AbsentEvicts ==
  \A p \in Procs :
    Returned(p) /\ proc[p].result = None /\ proc[p].checked # {} =>
      /\ ~InGlobal(proc[p].key)
      /\ getFromFileStorage(proc[p].key, FALSE) = None

\* the validity isCacheValid gave the entry of check c in the get of process p
ValidCheck(p, c) == isCacheValid(c.entry.metadata, proc[p].key, c.at, c.ver)

\* C23: a get whose globalState entry is valid returns that entry and has read
\* no file, whatever the file backend does; the file is read (once) only when
\* globalState gave no valid entry for the key.
C23_LookupOrder ==
  \A p \in Procs :
    proc[p].kind = "get" =>
      /\ proc[p].fileReads <= 1
      /\ \A c \in proc[p].checked :
           c.tier = "global" /\ ValidCheck(p, c) =>
             /\ proc[p].fileReads = 0
             /\ IsDone(p, "get")
             /\ proc[p].result = Some(c.entry.data)

\* a valid globalState entry is returned while the key's file is unreadable
C23_Witness ==
  \E p \in Procs :
    /\ IsDone(p, "get")
    /\ Malformed(proc[p].key)
    /\ proc[p].fileReads = 0
    /\ \E c \in proc[p].checked :
         c.tier = "global" /\ ValidCheck(p, c) /\ proc[p].result = Some(c.entry.data)

\* the metadata of the entry written for key k, in each tier
GlobalMeta(k) == IF InGlobal(k) THEN Some(heap[slot].data[k].metadata) ELSE None
BlobMeta(k) ==
  IF InBlob(k) /\ JsonParse(files[sanitizeFileName(k)].text) # None
    THEN Some(The(JsonParse(files[sanitizeFileName(k)].text)).metadata)
  ELSE None

\* a step of a set of key k
SetStep(k) ==
  \E p \in Procs : StepOf(p) /\ proc'[p].kind = "set" /\ proc'[p].key = k

\* C24: the metadata of a stored entry (its timestamp included) is the one the
\* set that wrote it gave it: an entry that is in a tier before and after a
\* step has other metadata after it only in a step of a set of its own key,
\* so no get, debugCacheEntry, remove, clear or set of another key changes it.
C24_WriteOnce ==
  [][\A k \in Keys :
       /\ ( /\ GlobalMeta(k) # None
            /\ GlobalMeta(k)' # None
            /\ GlobalMeta(k)' # GlobalMeta(k) ) => SetStep(k)
       /\ ( /\ BlobMeta(k) # None
            /\ BlobMeta(k)' # None
            /\ BlobMeta(k)' # BlobMeta(k) ) => SetStep(k)]_vars

\* a hit, after time has passed, on an entry that is still stored as written
C24_Witness ==
  \E p \in Procs :
    /\ IsDone(p, "get")
    /\ proc[p].result # None
    /\ \E c \in proc[p].checked :
         /\ c.at > c.entry.metadata.timestamp
         /\ GlobalHolds(proc[p].key, c.entry) \/ BlobHolds(proc[p].key, c.entry)

\* C25: a get calls the oracle once for each STATE_BASED entry it evaluates
\* and never otherwise: a get that found only TIME_BASED, PARAM_BASED or
\* PERMANENT entries, or none, has made no oracle call.
C25_OracleDiscipline ==
  \A p \in Procs :
    proc[p].kind = "get" =>
      proc[p].oracleCalls =
        Cardinality({c \in proc[p].checked : c.entry.metadata.strategy = "STATE_BASED"})

\* a get that evaluated an entry of another strategy than STATE_BASED
C25_Witness ==
  \E p \in Procs :
    /\ IsDone(p, "get")
    /\ \E c \in proc[p].checked : c.entry.metadata.strategy = "PARAM_BASED"
    /\ proc[p].oracleCalls = 0

\* C26: when a get that observed an expired entry of a key and a set of a new
\* entry for that key have run interleaved and both have completed, the stores
\* hold the new entry: the get's lazy eviction removed only what it observed.
C26_EvictionSparesFresh ==
  \A p, q \in Procs :
    ( /\ PairSince(p, q)
      /\ proc[p].kind = "get" /\ ~proc[p].failed
      /\ proc[q].kind = "set" /\ ~proc[q].failed
      /\ proc[p].key = proc[q].key
      /\ proc[p].checked # {}
      /\ \A c \in proc[p].checked : ~ValidCheck(p, c) /\ Some(c.entry) # proc[q].entry ) =>
      \/ GlobalHolds(proc[q].key, The(proc[q].entry))
      \/ BlobHolds(proc[q].key, The(proc[q].entry))

\* the get of process p ran right after two sets of its key, the second of
\* which overwrote the first
AfterTwoSets(p) == RightAfterSet(p) /\ proc[p].prev.over # None

\* C27 as stated: after two sequential sets of a key, with payloads of any
\* sizes and no failure, an immediate get returns the second payload.
C27_AsStated ==
  \A p \in Procs :
    AfterTwoSets(p) /\ TtlAllowed(PrevMeta(p)) =>
      proc[p].result = Some(PrevData(p))

\* C27: after two sequential sets of a key, with payloads of any sizes and no
\* failure, an immediate get returns the second payload when the second set
\* meets the round-trip condition on params, and otherwise null; it returns
\* the first payload in no case.
C27_LastWriteWins ==
  \A p \in Procs :
    AfterTwoSets(p) /\ TtlAllowed(PrevMeta(p)) =>
      /\ ( PrevMeta(p).strategy = "PARAM_BASED" =>
             PrevMeta(p).params = extractParamsFromKey(proc[p].key) ) =>
           proc[p].result = Some(PrevData(p))
      /\ proc[p].result \in {None, Some(PrevData(p))}

\* the second set moved the key to the other tier, in each direction
C27_Witness ==
  \E p \in Procs :
    /\ AfterTwoSets(p)
    /\ proc[p].prev.over = Some(PAtMax)
    /\ PrevData(p) = POverMax
    /\ proc[p].result = Some(POverMax)
    /\ ~InGlobal(proc[p].key)
C27_WitnessDown ==
  \E p \in Procs :
    /\ AfterTwoSets(p)
    /\ proc[p].prev.over = Some(POverMax)
    /\ PrevData(p) = PAtMax
    /\ proc[p].result = Some(PAtMax)
    /\ ~InBlob(proc[p].key)

\* C28: an initialize that rejected because the storage directory could not be
\* created has stored the instance all the same: every getInstance called
\* after the rejection returns that instance, and every initialize called
\* after it resolves at once, without another attempt at the directory.
C28_FailedInitInstalls ==
  /\ (\E c \in Procs : life[c].pc = "rejected") => instance.id # 0
  /\ \A c \in Procs :
       life[c].failed =>
         /\ life[c].call = "getInstance" =>
              life[c].pc = "returned" /\ life[c].got = instance.id
         /\ life[c].call = "initialize" => life[c].pc = "resolved"

C28_Witness ==
  \E c, d \in Procs :
    /\ life[c].failed /\ life[c].call = "getInstance" /\ life[c].pc = "returned"
    /\ life[d].failed /\ life[d].call = "initialize" /\ life[d].pc = "resolved"

\* C29: a refresh(false) called while another refresh call is in progress
\* returns at once without fetching, and no two non-forced refreshes are
\* between their guard and their finally block at the same time.
C29_RefreshGuard ==
  /\ \A r \in Calls :
       ( /\ refreshes[r].pc # "idle"
         /\ ~refreshes[r].forceRefresh
         /\ refreshes[r].busy ) => refreshes[r].end = "skipped"
  /\ Cardinality({r \in Calls : ~refreshes[r].forceRefresh /\ InFlight(r)}) <= 1

\* the release of the guard by every call that ends
Released ==
  \A r \in Calls : InFlight(r) /\ ~InFlight(r)' => isUpdating' = FALSE

\* C30: every refresh call that has set isUpdating ends, by success, early
\* return or error, and sets isUpdating to false when it ends; whenever
\* isUpdating is true it becomes false again, so that no later refresh(false)
\* is blocked forever.
C30_GuardReleased ==
  /\ \A r \in Calls : InFlight(r) ~> (refreshes[r].pc = "done")
  /\ isUpdating ~> ~isUpdating
  /\ [][Released]_vars

\* calls have ended by error, by early return and by success, and the guard
\* is free
C30_Witness ==
  /\ ~isUpdating
  /\ \E r \in Calls : refreshes[r].end = "error"
  /\ \E r \in Calls : refreshes[r].end \in {"noToken", "noData"}
  /\ \E r \in Calls : refreshes[r].end = "success"
====
